---- MODULE Spec2Model ----
(***************************************************************************)
(* A model of scripts/diagnostics.py: the Prometheus text scan             *)
(* (parse_metric_value), the exporter analysis (analyze_export_metrics),   *)
(* the status assessment (print_status_assessment) and the report cycle    *)
(* (run_diagnostics / continuous_monitoring).                              *)
(*                                                                         *)
(* Text is a sequence of one-character strings.  Numbers are exact         *)
(* rationals [n, d] in lowest terms with d > 0; Python's float agrees with *)
(* them on every comparison the script makes for the sample values used    *)
(* here (integer and one-decimal samples, thresholds 0, 50, 70, 80, 95).   *)
(* IEEE special values (nan, inf) and exponent notation are not modelled:  *)
(* no token of the modelled alphabet spells one.                           *)
(***************************************************************************)
EXTENDS Integers, Sequences, FiniteSets, TLC

VARIABLES
    pc,               \* position of the process (see the actions)
    args,             \* argparse result: continuous, health, metrics, export_stats
    cycle,            \* number of run_diagnostics calls started so far
    is_healthy,       \* print_health_status: first component of check_health()
    metrics_success,  \* print_export_statistics: first component of get_metrics()
    metrics_data,     \* print_export_statistics: second component of get_metrics()
    analysis,         \* print_export_statistics: the dict analyze_export_metrics returned
    report,           \* what the current run_diagnostics call has printed so far
    fetches,          \* urlopen calls of the current run_diagnostics call, in order
    metrics_text,     \* parse_metric_value / analyze_export_metrics: argument
    metric_name,      \* parse_metric_value: argument
    labels,           \* parse_metric_value: argument
    result            \* value returned by the function under test

vars == <<pc, args, cycle, is_healthy, metrics_success, metrics_data, analysis,
          report, fetches, metrics_text, metric_name, labels, result>>

(***************************************************************************)
(* Bounds of the model.                                                    *)
(***************************************************************************)
MaxLines == 3
MaxAnalyzeLines == 2
MaxCycles == 2

(***************************************************************************)
(* Numbers.                                                                *)
(***************************************************************************)
Abs(k) == IF k < 0 THEN -k ELSE k

RECURSIVE GCD(_, _)
GCD(a, b) == IF b = 0 THEN a ELSE GCD(b, a % b)

\* The rational n/d (d > 0) in lowest terms.
Rat(n, d) ==
    LET g == GCD(Abs(n), d)
    IN  [n |-> n \div g, d |-> d \div g]

IntRat(k) == [n |-> k, d |-> 1]
Zero == IntRat(0)

RatAdd(a, b) == Rat(a.n * b.d + b.n * a.d, a.d * b.d)
RatLess(a, b) == a.n * b.d < b.n * a.d
RatLeq(a, b) == a.n * b.d <= b.n * a.d
\* a / b for b > 0
RatDiv(a, b) == Rat(a.n * b.d, a.d * b.n)
RatMul(a, b) == Rat(a.n * b.n, a.d * b.d)

\* Optional[float]: None is the empty sequence, a value v is <<v>>.
None == <<>>
Some(v) == <<v>>

(***************************************************************************)
(* Strings.                                                                *)
(***************************************************************************)
Whitespace == {" ", "\t"}
Digits == {"0", "1", "2", "3", "4", "5", "6", "7", "8", "9"}

DigitVal(c) ==
    CASE c = "0" -> 0 [] c = "1" -> 1 [] c = "2" -> 2 [] c = "3" -> 3
      [] c = "4" -> 4 [] c = "5" -> 5 [] c = "6" -> 6 [] c = "7" -> 7
      [] c = "8" -> 8 [] c = "9" -> 9

\* str.startswith
startswith(line, prefix) ==
    /\ Len(prefix) <= Len(line)
    /\ \A j \in 1..Len(prefix) : line[j] = prefix[j]

\* sub in line
contains(line, sub) ==
    \E i \in 0..(Len(line) - Len(sub)) :
        \A j \in 1..Len(sub) : line[i + j] = sub[j]

\* str.split(sep) for a one-character separator: "a\nb" -> [a, b], "" -> [""]
RECURSIVE split_on(_, _)
split_on(s, sep) ==
    IF \A i \in 1..Len(s) : s[i] # sep
    THEN <<s>>
    ELSE LET k == CHOOSE i \in 1..Len(s) :
                      s[i] = sep /\ \A j \in 1..(i - 1) : s[j] # sep
         IN  <<SubSeq(s, 1, k - 1)>> \o split_on(SubSeq(s, k + 1, Len(s)), sep)

\* str.split(): the maximal runs of non-whitespace characters, in order
RECURSIVE split(_)
split(s) ==
    IF \A i \in 1..Len(s) : s[i] \in Whitespace
    THEN <<>>
    ELSE LET b == CHOOSE i \in 1..Len(s) :
                      s[i] \notin Whitespace /\ \A j \in 1..(i - 1) : s[j] \in Whitespace
             e == CHOOSE i \in b..Len(s) :
                      /\ \A j \in b..i : s[j] \notin Whitespace
                      /\ (i = Len(s) \/ s[i + 1] \in Whitespace)
         IN  <<SubSeq(s, b, e)>> \o split(SubSeq(s, e + 1, Len(s)))

RECURSIVE DigitsVal(_)
DigitsVal(ds) ==
    IF ds = <<>> THEN 0
    ELSE 10 * DigitsVal(SubSeq(ds, 1, Len(ds) - 1)) + DigitVal(ds[Len(ds)])

RECURSIVE Pow10(_)
Pow10(k) == IF k = 0 THEN 1 ELSE 10 * Pow10(k - 1)

\* float(tok) for decimal literals: [sign] digits [. digits] with at least one
\* digit.  None stands for ValueError.
float(tok) ==
    LET signed == tok # <<>> /\ tok[1] \in {"-", "+"}
        body == IF signed THEN Tail(tok) ELSE tok
        dots == {i \in 1..Len(body) : body[i] = "."}
        wellformed ==
            /\ \A i \in 1..Len(body) : body[i] \in Digits \cup {"."}
            /\ Cardinality(dots) <= 1
            /\ \E i \in 1..Len(body) : body[i] \in Digits
    IN  IF ~wellformed THEN None
        ELSE LET dot == IF dots = {} THEN Len(body) + 1 ELSE CHOOSE i \in dots : TRUE
                 int == SubSeq(body, 1, dot - 1)
                 frac == SubSeq(body, dot + 1, Len(body))
                 mag == DigitsVal(int \o frac)
                 num == IF signed /\ tok[1] = "-" THEN -mag ELSE mag
             IN  Some(Rat(num, Pow10(Len(frac))))

(***************************************************************************)
(* Metric names and the label filter, character by character.             *)
(***************************************************************************)
Prefix_exporter ==
    <<"o", "t", "e", "l", "c", "o", "l", "_", "e", "x", "p", "o", "r", "t",
      "e", "r", "_">>
Prefix_receiver ==
    <<"o", "t", "e", "l", "c", "o", "l", "_", "r", "e", "c", "e", "i", "v",
      "e", "r", "_">>
Suffix_datapoints_total ==
    <<"_", "_", "d", "a", "t", "a", "p", "o", "i", "n", "t", "s", "_", "_",
      "t", "o", "t", "a", "l">>
Suffix_total ==
    <<"_", "t", "o", "t", "a", "l">>
Suffix_batches ==
    <<"_", "_", "b", "a", "t", "c", "h", "e", "s", "_">>
Stem_sent ==
    <<"s", "e", "n", "t", "_", "m", "e", "t", "r", "i", "c", "_", "p", "o",
      "i", "n", "t", "s">>
Stem_failed ==
    <<"s", "e", "n", "d", "_", "f", "a", "i", "l", "e", "d", "_", "m", "e",
      "t", "r", "i", "c", "_", "p", "o", "i", "n", "t", "s">>
Stem_queue_size ==
    <<"q", "u", "e", "u", "e", "_", "s", "i", "z", "e">>
Stem_queue_capacity ==
    <<"q", "u", "e", "u", "e", "_", "c", "a", "p", "a", "c", "i", "t", "y">>
Stem_accepted ==
    <<"a", "c", "c", "e", "p", "t", "e", "d", "_", "m", "e", "t", "r", "i",
      "c", "_", "p", "o", "i", "n", "t", "s">>

sent_datapoints_name == Prefix_exporter \o Stem_sent \o Suffix_datapoints_total
sent_name == Prefix_exporter \o Stem_sent \o Suffix_total
failed_datapoints_name == Prefix_exporter \o Stem_failed \o Suffix_datapoints_total
failed_name == Prefix_exporter \o Stem_failed \o Suffix_total
queue_size_batches_name == Prefix_exporter \o Stem_queue_size \o Suffix_batches
queue_size_name == Prefix_exporter \o Stem_queue_size
queue_capacity_batches_name == Prefix_exporter \o Stem_queue_capacity \o Suffix_batches
queue_capacity_name == Prefix_exporter \o Stem_queue_capacity
received_datapoints_name == Prefix_receiver \o Stem_accepted \o Suffix_datapoints_total
received_name == Prefix_receiver \o Stem_accepted \o Suffix_total

\* exporter="otlphttp"
exporter_otlphttp ==
    <<"e", "x", "p", "o", "r", "t", "e", "r", "=", "\"", "o", "t", "l", "p",
      "h", "t", "t", "p", "\"">>
\* exporter="debug", a label set the filter rejects
exporter_debug ==
    <<"e", "x", "p", "o", "r", "t", "e", "r", "=", "\"", "d", "e", "b", "u",
      "g", "\"">>
NoLabels == <<>>

(***************************************************************************)
(* parse_metric_value                                                      *)
(***************************************************************************)
\* A variant that gives up at the first line whose value does not parse.
RECURSIVE ScanLinesAbort(_, _, _)
ScanLinesAbort(lines, name, lbls) ==
    IF lines = <<>> THEN None
    ELSE LET line == Head(lines)
         IN  IF ~startswith(line, name) THEN ScanLinesAbort(Tail(lines), name, lbls)
             ELSE IF lbls # <<>> /\ ~contains(line, lbls)
                  THEN ScanLinesAbort(Tail(lines), name, lbls)
             ELSE LET toks == split(line)
                  IN  IF toks = <<>> THEN None ELSE float(toks[Len(toks)])

\* The for loop over the lines: the value of the first line that starts with
\* the name, carries the labels (when given) and whose last token parses.
RECURSIVE ScanLines(_, _, _)
ScanLines(lines, name, lbls) ==
    IF lines = <<>> THEN None
    ELSE LET line == Head(lines)
         IN  IF ~startswith(line, name) THEN ScanLines(Tail(lines), name, lbls)
             ELSE IF lbls # <<>> /\ ~contains(line, lbls)
                  THEN ScanLines(Tail(lines), name, lbls)                  \* continue
             ELSE LET toks == split(line)
                  IN  IF toks = <<>>
                      THEN ScanLines(Tail(lines), name, lbls)              \* IndexError
                      ELSE LET v == float(toks[Len(toks)])
                           IN  IF v = None
                               THEN ScanLines(Tail(lines), name, lbls)     \* ValueError
                               ELSE v

parse_metric_value(text, name, lbls) == ScanLines(split_on(text, "\n"), name, lbls)

(***************************************************************************)
(* analyze_export_metrics                                                  *)
(***************************************************************************)
\* bool(x) for x an Optional[float]: None and 0.0 are falsy
truthy(x) == x # None /\ x[1].n # 0

\* a or b
py_or(a, b) == IF truthy(a) THEN a ELSE b

\* parse(first name) or parse(second name) or 0
first_or_zero(text, name1, name2, lbls) ==
    py_or(py_or(parse_metric_value(text, name1, lbls),
                parse_metric_value(text, name2, lbls)),
          Some(Zero))[1]

\* A variant that reports the failure share instead of the success share.
success_rate_failed_share(sent, failed) ==
    IF RatLess(Zero, RatAdd(sent, failed))
    THEN RatMul(RatDiv(failed, RatAdd(sent, failed)), IntRat(100))
    ELSE Zero

\* total_attempts = sent + failed; sent / total_attempts * 100 when it is > 0
success_rate_of(sent, failed) ==
    IF RatLess(Zero, RatAdd(sent, failed))
    THEN RatMul(RatDiv(sent, RatAdd(sent, failed)), IntRat(100))
    ELSE Zero

\* A variant that clamps the utilization at 100.
queue_utilization_clamped(size, capacity) ==
    IF RatLess(Zero, capacity)
    THEN LET u == RatMul(RatDiv(size, capacity), IntRat(100))
         IN  IF RatLess(IntRat(100), u) THEN IntRat(100) ELSE u
    ELSE Zero

\* queue_size / queue_capacity * 100 when the capacity is > 0
queue_utilization_of(size, capacity) ==
    IF RatLess(Zero, capacity)
    THEN RatMul(RatDiv(size, capacity), IntRat(100))
    ELSE Zero

\* The dict of lines 80-88.
EmptyAnalysis ==
    [otlphttp_sent_metrics |-> Zero,
     otlphttp_failed_metrics |-> Zero,
     otlphttp_queue_size |-> Zero,
     otlphttp_queue_capacity |-> Zero,
     total_received_metrics |-> Zero,
     success_rate |-> Zero,
     queue_utilization |-> Zero]

analyze_export_metrics(text) ==
    LET sent == first_or_zero(text, sent_datapoints_name, sent_name, exporter_otlphttp)
        failed == first_or_zero(text, failed_datapoints_name, failed_name,
                                exporter_otlphttp)
        size == first_or_zero(text, queue_size_batches_name, queue_size_name,
                              exporter_otlphttp)
        capacity == first_or_zero(text, queue_capacity_batches_name,
                                  queue_capacity_name, exporter_otlphttp)
        received == first_or_zero(text, received_datapoints_name, received_name,
                                  NoLabels)
    IN  [otlphttp_sent_metrics |-> sent,
         otlphttp_failed_metrics |-> failed,
         otlphttp_queue_size |-> size,
         otlphttp_queue_capacity |-> capacity,
         total_received_metrics |-> received,
         success_rate |-> success_rate_of(sent, failed),
         queue_utilization |-> queue_utilization_of(size, capacity)]

(***************************************************************************)
(* Metrics texts the endpoint may return.                                  *)
(***************************************************************************)
\* name{labels} value
sample_line(name, lbls, value) == name \o <<"{">> \o lbls \o <<"}", " ">> \o value

\* name value
bare_line(name, value) == name \o <<" ">> \o value

RECURSIVE join_lines(_)
join_lines(lines) ==
    IF lines = <<>> THEN <<>>
    ELSE IF Len(lines) = 1 THEN lines[1]
    ELSE lines[1] \o <<"\n">> \o join_lines(Tail(lines))

SeqsUpTo(S, k) == UNION {[1..m -> S] : m \in 0..k}

(***************************************************************************)
(* parse_metric_value on its own: SpecParse                                *)
(***************************************************************************)
ParseLines ==
    { sample_line(queue_size_name, exporter_otlphttp, <<"4", "2", ".", "5">>),
      sample_line(queue_size_name, exporter_debug, <<"7">>),
      sample_line(queue_size_name, exporter_otlphttp, <<"a", "b", "c">>),
      sample_line(queue_size_batches_name, exporter_otlphttp, <<"3">>),
      sample_line(queue_capacity_name, exporter_otlphttp, <<"1", "0", "0">>),
      bare_line(queue_size_name, <<"-", "1">>),
      queue_size_name \o <<"{">> \o exporter_otlphttp \o <<"}", "\t", "8", " ">>,
      queue_size_name,
      <<>> }

ParseNames == {queue_size_name, queue_size_batches_name, <<>>}
ParseLabels == {NoLabels, exporter_otlphttp}

InitParse ==
    /\ pc = "parse_metric_value"
    /\ metrics_text \in {join_lines(ls) : ls \in SeqsUpTo(ParseLines, MaxLines)}
    /\ metric_name \in ParseNames
    /\ labels \in ParseLabels
    /\ result = None
    /\ args = [continuous |-> FALSE, health |-> FALSE, metrics |-> FALSE,
               export_stats |-> FALSE]
    /\ cycle = 0
    /\ is_healthy = FALSE
    /\ metrics_success = FALSE
    /\ metrics_data = <<>>
    /\ analysis = EmptyAnalysis
    /\ report = <<>>
    /\ fetches = <<>>

ParseMetricValue ==
    /\ pc = "parse_metric_value"
    /\ result' = parse_metric_value(metrics_text, metric_name, labels)
    /\ pc' = "parse_metric_value_returned"
    /\ UNCHANGED <<args, cycle, is_healthy, metrics_success, metrics_data, analysis,
                   report, fetches, metrics_text, metric_name, labels>>

NextParse == ParseMetricValue

SpecParse == InitParse /\ [][NextParse]_vars

(***************************************************************************)
(* analyze_export_metrics on its own: SpecAnalyze                          *)
(***************************************************************************)
\* The two names and the label filter of each base field (lines 91-115).
FieldQueries ==
    [otlphttp_sent_metrics |->
         <<sent_datapoints_name, sent_name, exporter_otlphttp>>,
     otlphttp_failed_metrics |->
         <<failed_datapoints_name, failed_name, exporter_otlphttp>>,
     otlphttp_queue_size |->
         <<queue_size_batches_name, queue_size_name, exporter_otlphttp>>,
     otlphttp_queue_capacity |->
         <<queue_capacity_batches_name, queue_capacity_name, exporter_otlphttp>>,
     total_received_metrics |->
         <<received_datapoints_name, received_name, NoLabels>>]

BaseFields == DOMAIN FieldQueries

\* For every base field: the first name with 0 and with 5, the second name
\* with 0 and with 7; for the sent counter also a line of another exporter
\* and a line whose value does not parse.
AnalyzeLines ==
    UNION { { sample_line(FieldQueries[f][1], exporter_otlphttp, <<"0">>),
              sample_line(FieldQueries[f][1], exporter_otlphttp, <<"5">>),
              sample_line(FieldQueries[f][2], exporter_otlphttp, <<"0">>),
              sample_line(FieldQueries[f][2], exporter_otlphttp, <<"7">>) }
            : f \in BaseFields }
    \cup { sample_line(sent_datapoints_name, exporter_debug, <<"9">>),
           sample_line(sent_datapoints_name, exporter_otlphttp, <<"n", "/", "a">>) }

InitAnalyze ==
    /\ pc = "analyze_export_metrics"
    /\ metrics_text \in {join_lines(ls) : ls \in SeqsUpTo(AnalyzeLines, MaxAnalyzeLines)}
    /\ metric_name = <<>>
    /\ labels = <<>>
    /\ result = None
    /\ args = [continuous |-> FALSE, health |-> FALSE, metrics |-> FALSE,
               export_stats |-> FALSE]
    /\ cycle = 0
    /\ is_healthy = FALSE
    /\ metrics_success = FALSE
    /\ metrics_data = <<>>
    /\ analysis = EmptyAnalysis
    /\ report = <<>>
    /\ fetches = <<>>

AnalyzeExportMetrics ==
    /\ pc = "analyze_export_metrics"
    /\ analysis' = analyze_export_metrics(metrics_text)
    /\ pc' = "analyze_export_metrics_returned"
    /\ UNCHANGED <<args, cycle, is_healthy, metrics_success, metrics_data, report,
                   fetches, metrics_text, metric_name, labels, result>>

NextAnalyze == AnalyzeExportMetrics

SpecAnalyze == InitAnalyze /\ [][NextAnalyze]_vars

(***************************************************************************)
(* The report: main, run_diagnostics, continuous_monitoring: Spec          *)
(***************************************************************************)
\* Bodies the metrics endpoint returns: an optional sample of each of the
\* sent, failed, queue size and queue capacity series.
NoSample == <<>>
SentSamples ==
    {NoSample} \cup
    {<<sample_line(sent_datapoints_name, exporter_otlphttp, v)>> :
        v \in {<<"0">>, <<"5">>, <<"7", "9">>, <<"8", "0">>, <<"9", "5">>, <<"-", "1">>}}
FailedSamples ==
    {NoSample} \cup
    {<<sample_line(failed_name, exporter_otlphttp, v)>> :
        v \in {<<"5">>, <<"2", "0">>, <<"2", "1">>}}
QueueSizeSamples ==
    {NoSample} \cup
    {<<sample_line(queue_size_batches_name, exporter_otlphttp, v)>> :
        v \in {<<"4", "2", ".", "5">>, <<"5", "0">>, <<"7", "0">>, <<"7", "5">>,
               <<"8", "0">>, <<"1", "5", "0">>}}
QueueCapacitySamples ==
    {NoSample} \cup
    {<<sample_line(queue_capacity_name, exporter_otlphttp, v)>> :
        v \in {<<"0">>, <<"1", "0", "0">>}}

MetricsBodies ==
    {join_lines(s \o f \o q \o c) :
        s \in SentSamples, f \in FailedSamples,
        q \in QueueSizeSamples, c \in QueueCapacitySamples}

\* What urlopen can do: answer, or raise URLError, HTTPError (a non-2xx
\* status), or another Exception (socket.timeout, a decoding error).
FetchOutcomes == {"ok", "URLError", "HTTPError", "Exception"}

\* argparse: in continuous mode the view selectors are not read.
ArgSets ==
    {a \in [continuous : BOOLEAN, health : BOOLEAN, metrics : BOOLEAN,
            export_stats : BOOLEAN] :
        a.continuous => ~(a.health \/ a.metrics \/ a.export_stats)}

\* The arguments run_diagnostics is called with (lines 248 and 271-275).
health_only == ~args.continuous /\ args.health
metrics_only == ~args.continuous /\ args.metrics
export_stats_only == ~args.continuous /\ args.export_stats

\* The three conditions of run_diagnostics (lines 232, 235, 238).
RunsHealth == health_only \/ ~(metrics_only \/ export_stats_only)
RunsExport == metrics_only \/ export_stats_only \/ ~health_only
RunsEndpoints == ~(health_only \/ metrics_only \/ export_stats_only)

\* Where control goes when run_diagnostics returns.
AfterRunDiagnostics == IF args.continuous THEN "sleep" ELSE "exit"
AfterExport == IF RunsEndpoints THEN "print_monitoring_endpoints" ELSE AfterRunDiagnostics
AfterHealth == IF RunsExport THEN "print_export_statistics" ELSE AfterExport
\* A variant that runs the export statistics before the health check.
AfterBannerExportFirst == IF RunsExport THEN "print_export_statistics" ELSE "print_health_status"
AfterBanner == IF RunsHealth THEN "print_health_status" ELSE AfterHealth

Init ==
    /\ pc = "main"
    /\ args \in ArgSets
    /\ cycle = 0
    /\ is_healthy = FALSE
    /\ metrics_success = FALSE
    /\ metrics_data = <<>>
    /\ analysis = EmptyAnalysis
    /\ report = <<>>
    /\ fetches = <<>>
    /\ metrics_text = <<>>
    /\ metric_name = <<>>
    /\ labels = <<>>
    /\ result = None

\* main: continuous_monitoring prints its two start lines and enters the
\* loop; otherwise run_diagnostics is called once.
Main ==
    /\ pc = "main"
    /\ pc' = "run_diagnostics"
    /\ UNCHANGED <<args, cycle, is_healthy, metrics_success, metrics_data, analysis,
                   report, fetches, metrics_text, metric_name, labels, result>>

\* run_diagnostics begins: print_banner.  The locals of the previous call
\* are gone; report and fetches restart with this call.
PrintBanner ==
    /\ pc = "run_diagnostics"
    /\ cycle < MaxCycles
    /\ cycle' = cycle + 1
    /\ report' = <<"BANNER">>
    /\ fetches' = <<>>
    /\ is_healthy' = FALSE
    /\ metrics_success' = FALSE
    /\ metrics_data' = <<>>
    /\ analysis' = EmptyAnalysis
    /\ pc' = AfterBanner
    /\ UNCHANGED <<args, metrics_text, metric_name, labels, result>>

\* A variant in which a failed health fetch is not caught.
CheckHealthUncaught ==
    /\ pc = "print_health_status"
    /\ \E outcome \in FetchOutcomes :
          /\ is_healthy' = (outcome = "ok")
          /\ pc' = IF outcome = "ok" THEN "health_fetched" ELSE "crashed"
    /\ report' = report \o <<"HEALTH_HEADER">>
    /\ fetches' = fetches \o <<"health">>
    /\ UNCHANGED <<args, cycle, metrics_success, metrics_data, analysis,
                   metrics_text, metric_name, labels, result>>

\* print_health_status up to the return of check_health (lines 130-133, 39-48)
CheckHealth ==
    /\ pc = "print_health_status"
    /\ \E outcome \in FetchOutcomes : is_healthy' = (outcome = "ok")
    /\ report' = report \o <<"HEALTH_HEADER">>
    /\ fetches' = fetches \o <<"health">>
    /\ pc' = "health_fetched"
    /\ UNCHANGED <<args, cycle, metrics_success, metrics_data, analysis,
                   metrics_text, metric_name, labels, result>>

\* print_health_status, lines 135-143
PrintHealthResult ==
    /\ pc = "health_fetched"
    /\ report' = report \o (IF is_healthy THEN <<"HEALTH_OK">>
                            ELSE <<"HEALTH_FAILED", "HEALTH_TROUBLESHOOTING">>)
    /\ pc' = AfterHealth
    /\ UNCHANGED <<args, cycle, is_healthy, metrics_success, metrics_data, analysis,
                   fetches, metrics_text, metric_name, labels, result>>

\* print_export_statistics up to the return of get_metrics (lines 147-150, 50-59)
GetMetrics ==
    /\ pc = "print_export_statistics"
    /\ \E outcome \in FetchOutcomes :
          IF outcome = "ok"
          THEN /\ metrics_success' = TRUE
               /\ metrics_data' \in MetricsBodies
          ELSE /\ metrics_success' = FALSE
               /\ metrics_data' = <<outcome>>
    /\ report' = report \o <<"EXPORT_HEADER">>
    /\ fetches' = fetches \o <<"metrics">>
    /\ pc' = "metrics_fetched"
    /\ UNCHANGED <<args, cycle, is_healthy, analysis, metrics_text, metric_name,
                   labels, result>>

\* print_export_statistics, lines 152-158
PrintMetricsFailure ==
    /\ pc = "metrics_fetched"
    /\ ~metrics_success
    /\ report' = report \o <<"METRICS_FAILED", "METRICS_TROUBLESHOOTING">>
    /\ pc' = AfterExport
    /\ UNCHANGED <<args, cycle, is_healthy, metrics_success, metrics_data, analysis,
                   fetches, metrics_text, metric_name, labels, result>>

\* print_export_statistics, lines 160-173
PrintStatistics ==
    /\ pc = "metrics_fetched"
    /\ metrics_success
    /\ analysis' = analyze_export_metrics(metrics_data)
    /\ report' = report \o <<"STATISTICS">>
    /\ pc' = "print_status_assessment"
    /\ UNCHANGED <<args, cycle, is_healthy, metrics_success, metrics_data, fetches,
                   metrics_text, metric_name, labels, result>>

(***************************************************************************)
(* print_status_assessment                                                 *)
(***************************************************************************)
\* A variant whose bands exclude their lower boundary.
export_health_strict(success_rate) ==
    IF RatLess(IntRat(95), success_rate) THEN "EXPORT_EXCELLENT"
    ELSE IF RatLess(IntRat(80), success_rate) THEN "EXPORT_GOOD"
    ELSE IF RatLess(IntRat(50), success_rate) THEN "EXPORT_DEGRADED"
    ELSE "EXPORT_CRITICAL"

\* lines 185-192
export_health(success_rate) ==
    IF RatLeq(IntRat(95), success_rate) THEN "EXPORT_EXCELLENT"
    ELSE IF RatLeq(IntRat(80), success_rate) THEN "EXPORT_GOOD"
    ELSE IF RatLeq(IntRat(50), success_rate) THEN "EXPORT_DEGRADED"
    ELSE "EXPORT_CRITICAL"

\* A variant that reports HIGH only above 80.
queue_status_high_above(queue_util) ==
    IF RatLess(queue_util, IntRat(50)) THEN "QUEUE_HEALTHY"
    ELSE IF RatLeq(queue_util, IntRat(80)) THEN "QUEUE_MODERATE"
    ELSE "QUEUE_HIGH"

\* lines 196-201
queue_status(queue_util) ==
    IF RatLess(queue_util, IntRat(50)) THEN "QUEUE_HEALTHY"
    ELSE IF RatLess(queue_util, IntRat(80)) THEN "QUEUE_MODERATE"
    ELSE "QUEUE_HIGH"

\* lines 205-209
FailureBlock ==
    <<"RECOMMENDATIONS", "CHECK_API_TOKEN", "VERIFY_DT_ENDPOINT",
      "REVIEW_NETWORK", "CHECK_COLLECTOR_LOGS">>

\* lines 212-215
QueueBlock ==
    <<"QUEUE_RECOMMENDATIONS", "INCREASE_QUEUE_SIZE", "ADD_NUM_CONSUMERS",
      "REVIEW_BATCH_PROCESSOR">>

\* A variant that gives the queue advice only together with the failure advice.
recommendations_nested(a) ==
    IF RatLess(Zero, a.otlphttp_failed_metrics)
    THEN FailureBlock \o
         (IF RatLess(IntRat(70), a.queue_utilization) THEN QueueBlock ELSE <<>>)
    ELSE <<>>

\* lines 204-215
recommendations(a) ==
    (IF RatLess(Zero, a.otlphttp_failed_metrics) THEN FailureBlock ELSE <<>>)
    \o (IF RatLess(IntRat(70), a.queue_utilization) THEN QueueBlock ELSE <<>>)

\* lines 180-215
PrintStatusAssessment ==
    /\ pc = "print_status_assessment"
    /\ report' = report \o <<"ASSESSMENT_HEADER",
                             export_health(analysis.success_rate),
                             queue_status(analysis.queue_utilization)>>
                        \o recommendations(analysis)
    /\ pc' = AfterExport
    /\ UNCHANGED <<args, cycle, is_healthy, metrics_success, metrics_data, analysis,
                   fetches, metrics_text, metric_name, labels, result>>

\* lines 219-226
PrintMonitoringEndpoints ==
    /\ pc = "print_monitoring_endpoints"
    /\ report' = report \o <<"ENDPOINTS">>
    /\ pc' = AfterRunDiagnostics
    /\ UNCHANGED <<args, cycle, is_healthy, metrics_success, metrics_data, analysis,
                   fetches, metrics_text, metric_name, labels, result>>

\* continuous_monitoring, lines 249-251: the two prints, then time.sleep begins
Sleep ==
    /\ pc = "sleep"
    /\ report' = report \o <<"SLEEPING">>
    /\ pc' = "sleeping"
    /\ UNCHANGED <<args, cycle, is_healthy, metrics_success, metrics_data, analysis,
                   fetches, metrics_text, metric_name, labels, result>>

\* time.sleep returns and the loop calls run_diagnostics again
WakeUp ==
    /\ pc = "sleeping"
    /\ pc' = "run_diagnostics"
    /\ UNCHANGED <<args, cycle, is_healthy, metrics_success, metrics_data, analysis,
                   report, fetches, metrics_text, metric_name, labels, result>>

\* The positions inside the try block of continuous_monitoring.
LoopPositions ==
    {"run_diagnostics", "print_health_status", "health_fetched",
     "print_export_statistics", "metrics_fetched", "print_status_assessment",
     "print_monitoring_endpoints", "sleep", "sleeping"}

\* Ctrl+C.  KeyboardInterrupt is no Exception, so check_health and
\* get_metrics let it pass; inside the loop line 252 catches it and prints the
\* stop message, anywhere else it ends the process.
KeyboardInterrupt ==
    /\ pc \in LoopPositions \cup {"main"}
    /\ IF args.continuous /\ pc \in LoopPositions
       THEN /\ report' = report \o <<"STOPPED">>
            /\ pc' = "stopped"
       ELSE /\ report' = report
            /\ pc' = "interrupted"
    /\ UNCHANGED <<args, cycle, is_healthy, metrics_success, metrics_data, analysis,
                   fetches, metrics_text, metric_name, labels, result>>

Next ==
    \/ Main
    \/ PrintBanner
    \/ CheckHealth
    \/ PrintHealthResult
    \/ GetMetrics
    \/ PrintMetricsFailure
    \/ PrintStatistics
    \/ PrintStatusAssessment
    \/ PrintMonitoringEndpoints
    \/ Sleep
    \/ WakeUp
    \/ KeyboardInterrupt

Spec == Init /\ [][Next]_vars

(***************************************************************************)
(* Properties.                                                             *)
(***************************************************************************)
Printed(tag) == \E i \in DOMAIN report : report[i] = tag
PositionsOf(tag) == {i \in DOMAIN report : report[i] = tag}
Min(S) == CHOOSE x \in S : \A y \in S : x <= y

\* ---- parse_metric_value ------------------------------------------------
LastToken(line) == LET toks == split(line) IN toks[Len(toks)]

\* The line starts with the name, carries the label substring when one is
\* given, and its last whitespace-delimited token parses as a number.
Qualifies(line, name, lbls) ==
    /\ startswith(line, name)
    /\ lbls = <<>> \/ contains(line, lbls)
    /\ \E i \in DOMAIN line : line[i] \notin Whitespace
    /\ float(LastToken(line)) # None

QualifyingLines(lines, name, lbls) ==
    {i \in DOMAIN lines : Qualifies(lines[i], name, lbls)}

\* C2: parse_metric_value returns the value of the last token of the first
\* line, in document order, that starts with the name, contains the label
\* substring when one is given and whose last token parses; lines that match
\* the name but fail the label or the parse are skipped; the result is absent
\* exactly when no line qualifies.
C2_FirstQualifyingLine ==
    pc = "parse_metric_value_returned" =>
        LET lines == split_on(metrics_text, "\n")
            Q == QualifyingLines(lines, metric_name, labels)
        IN  IF Q = {} THEN result = None
            ELSE result # None /\ result = float(LastToken(lines[Min(Q)]))

\* A call that returned a value from a line after skipping an earlier line
\* that matched the name (wrong labels, or a value that does not parse).
C2_Witness ==
    /\ pc = "parse_metric_value_returned"
    /\ metric_name # <<>>
    /\ result # None
    /\ LET lines == split_on(metrics_text, "\n")
           Q == QualifyingLines(lines, metric_name, labels)
       IN  /\ Q # {}
           /\ \E i \in 1..(Min(Q) - 1) :
                 /\ startswith(lines[i], metric_name)
                 /\ labels # <<>> /\ ~contains(lines[i], labels)
           /\ \E i \in 1..(Min(Q) - 1) :
                 /\ startswith(lines[i], metric_name)
                 /\ contains(lines[i], labels)
                 /\ float(LastToken(lines[i])) = None

\* ---- analyze_export_metrics: base fields --------------------------------
\* C1: each base field is the value of the first alternative, in list order,
\* that is present in the text (a present 0 included), and 0 only when every
\* alternative is absent.
C1_FirstPresentAlternative ==
    pc = "analyze_export_metrics_returned" =>
        \A f \in BaseFields :
            LET q == FieldQueries[f]
                first == parse_metric_value(metrics_text, q[1], q[3])
                second == parse_metric_value(metrics_text, q[2], q[3])
            IN  analysis[f] = IF first # None THEN first[1]
                              ELSE IF second # None THEN second[1]
                              ELSE Zero

\* ---- analyze_export_metrics: derived ratios -----------------------------
Analysed == Printed("STATISTICS")
Sent == analysis.otlphttp_sent_metrics
Failed == analysis.otlphttp_failed_metrics
QueueSize == analysis.otlphttp_queue_size
QueueCapacity == analysis.otlphttp_queue_capacity
SuccessRate == analysis.success_rate
QueueUtilization == analysis.queue_utilization
TotalAttempts == RatAdd(Sent, Failed)

\* successRate * (sent + failed) = sent * 100
IsSuccessShare ==
    SuccessRate.n * TotalAttempts.n * Sent.d = 100 * Sent.n * SuccessRate.d * TotalAttempts.d

SuccessRateValues ==
    /\ (Sent = Zero /\ Failed = Zero) => SuccessRate = Zero
    /\ (Failed = Zero /\ Sent.n > 0) => SuccessRate = IntRat(100)
    /\ TotalAttempts.n > 0 => IsSuccessShare
    /\ TotalAttempts.n <= 0 => SuccessRate = Zero

C6_QueueUtilization ==
    Analysed =>
        /\ QueueCapacity = Zero => QueueUtilization = Zero
        /\ QueueCapacity.n > 0 =>
               QueueUtilization.n * QueueCapacity.n * QueueSize.d
                   = 100 * QueueSize.n * QueueUtilization.d * QueueCapacity.d

\* A queue reported larger than its capacity: the utilization is above 100.
C6_Witness ==
    /\ Analysed
    /\ QueueCapacity.n > 0
    /\ RatLess(QueueCapacity, QueueSize)
    /\ RatLess(IntRat(100), QueueUtilization)

\* ---- print_status_assessment --------------------------------------------
Assessed == Printed("ASSESSMENT_HEADER")
ExportTiers == {"EXPORT_EXCELLENT", "EXPORT_GOOD", "EXPORT_DEGRADED", "EXPORT_CRITICAL"}
QueueTiers == {"QUEUE_HEALTHY", "QUEUE_MODERATE", "QUEUE_HIGH"}
PrintedOnce(tag) == Cardinality(PositionsOf(tag)) = 1
\* rate >= k and rate < k, for an integer k
AtLeast(rate, k) == rate.n >= k * rate.d
Below(rate, k) == rate.n < k * rate.d
Above(rate, k) == rate.n > k * rate.d

\* C4: the export tier is a function of successRate alone, with
\* lower-inclusive bands: EXCELLENT from 95, GOOD from 80 to below 95,
\* DEGRADED from 50 to below 80, CRITICAL below 50; exactly one tier is
\* printed per assessment; sent = 95, failed = 5 gives EXCELLENT and
\* sent = 79, failed = 21 gives DEGRADED.
C4_ExportTier ==
    Assessed =>
        /\ Cardinality({i \in DOMAIN report : report[i] \in ExportTiers}) = 1
        /\ Printed("EXPORT_EXCELLENT") <=> AtLeast(SuccessRate, 95)
        /\ Printed("EXPORT_GOOD") <=> (AtLeast(SuccessRate, 80) /\ Below(SuccessRate, 95))
        /\ Printed("EXPORT_DEGRADED") <=> (AtLeast(SuccessRate, 50) /\ Below(SuccessRate, 80))
        /\ Printed("EXPORT_CRITICAL") <=> Below(SuccessRate, 50)
        /\ (Sent = IntRat(95) /\ Failed = IntRat(5)) => Printed("EXPORT_EXCELLENT")
        /\ (Sent = IntRat(79) /\ Failed = IntRat(21)) => Printed("EXPORT_DEGRADED")

\* An assessment of a rate of exactly 95, printed as EXCELLENT.
C4_Witness ==
    /\ Assessed
    /\ Sent = IntRat(95) /\ Failed = IntRat(5)
    /\ SuccessRate = IntRat(95)
    /\ Printed("EXPORT_EXCELLENT")

BlockPrinted(block) == \A k \in DOMAIN block : PrintedOnce(block[k])
BlockAbsent(block) == \A k \in DOMAIN block : ~Printed(block[k])
\* The lines of the block appear once each, adjacent and in their order.
BlockInOrder(block) ==
    \E i \in DOMAIN report :
        /\ i + Len(block) - 1 <= Len(report)
        /\ \A k \in DOMAIN block : report[i + k - 1] = block[k]

\* C5: the failure-remediation block is printed if and only if
\* failedMetrics > 0, the queue-remediation block if and only if
\* queueUtilization > 70, each whatever the other and the tiers are; when both
\* are printed the whole failure block precedes the whole queue block; with
\* failedMetrics = 0 and queueUtilization <= 70 nothing follows the two tiers.
C5_Recommendations ==
    Assessed =>
        /\ IF Failed.n > 0
           THEN BlockPrinted(FailureBlock) /\ BlockInOrder(FailureBlock)
           ELSE BlockAbsent(FailureBlock)
        /\ IF Above(QueueUtilization, 70)
           THEN BlockPrinted(QueueBlock) /\ BlockInOrder(QueueBlock)
           ELSE BlockAbsent(QueueBlock)
        /\ \A i, j \in DOMAIN report :
               (\E k \in DOMAIN FailureBlock : report[i] = FailureBlock[k])
               /\ (\E k \in DOMAIN QueueBlock : report[j] = QueueBlock[k])
               => i < j
        /\ (Failed.n <= 0 /\ ~Above(QueueUtilization, 70)) =>
               \A i \in DOMAIN report :
                   i > Min(PositionsOf("ASSESSMENT_HEADER")) + 2 =>
                       report[i] \in {"ENDPOINTS", "SLEEPING", "STOPPED"}

\* An assessment that printed both blocks.
C5_Witness ==
    /\ Assessed
    /\ Failed.n > 0
    /\ Above(QueueUtilization, 70)
    /\ Printed("RECOMMENDATIONS")
    /\ Printed("QUEUE_RECOMMENDATIONS")

\* C7: the queue tier is a function of queueUtilization alone: HEALTHY below
\* 50, MODERATE from 50 to below 80, HIGH from 80; every HIGH assessment
\* carries the queue-remediation block and no HEALTHY assessment does.
C7_QueueTier ==
    Assessed =>
        /\ Cardinality({i \in DOMAIN report : report[i] \in QueueTiers}) = 1
        /\ Printed("QUEUE_HEALTHY") <=> Below(QueueUtilization, 50)
        /\ Printed("QUEUE_MODERATE") <=>
               (AtLeast(QueueUtilization, 50) /\ Below(QueueUtilization, 80))
        /\ Printed("QUEUE_HIGH") <=> AtLeast(QueueUtilization, 80)
        /\ Printed("QUEUE_HIGH") => BlockPrinted(QueueBlock)
        /\ Printed("QUEUE_HEALTHY") => BlockAbsent(QueueBlock)

\* An assessment of a utilization of exactly 80, printed as HIGH with the
\* queue-remediation block.
C7_Witness ==
    /\ Assessed
    /\ QueueUtilization = IntRat(80)
    /\ Printed("QUEUE_HIGH")
    /\ Printed("QUEUE_RECOMMENDATIONS")

\* ---- the report cycle ----------------------------------------------------
\* C8: when the interrupt ends the continuous loop, the report of the cycle
\* it interrupted was printed completely or not at all.
C8_NoPartialReport ==
    pc = "stopped" => (Printed("BANNER") => Printed("ENDPOINTS"))

AnalysisTags ==
    {"STATISTICS", "ASSESSMENT_HEADER"} \cup ExportTiers \cup QueueTiers
    \cup {FailureBlock[k] : k \in DOMAIN FailureBlock}
    \cup {QueueBlock[k] : k \in DOMAIN QueueBlock}

EndedByInterrupt == pc \in {"stopped", "interrupted"}

\* A failed health fetch is reported and the cycle goes on as after a
\* successful one; a failed metrics fetch is reported and the export
\* statistics return; after a cycle with a failure the loop calls
\* run_diagnostics again.
FailureStep ==
    /\ (pc = "health_fetched" /\ ~is_healthy /\ ~EndedByInterrupt') =>
           /\ Printed("HEALTH_FAILED")'
           /\ RunsExport => pc' = "print_export_statistics"
    /\ (pc = "metrics_fetched" /\ ~metrics_success /\ ~EndedByInterrupt') =>
           /\ Printed("METRICS_FAILED")'
           /\ pc' = IF RunsEndpoints THEN "print_monitoring_endpoints" ELSE "exit"
    /\ (pc = "sleeping" /\ pc' # pc /\ ~EndedByInterrupt'
        /\ (Printed("HEALTH_FAILED") \/ Printed("METRICS_FAILED"))) =>
           pc' = "run_diagnostics"

\* C9: a failed fetch is confined to its own sub-report and never ends the
\* process: a failed health fetch prints the failure and the checklist and
\* the export statistics of the cycle still run; a failed metrics fetch
\* prints the error and the checklist and nothing of the analysis, tiers or
\* recommendations; in continuous mode the next cycle still runs.
C9_FailureConfined ==
    /\ [](pc # "crashed")
    /\ [](args.continuous => pc # "exit")
    /\ [](Printed("HEALTH_FAILED") => Printed("HEALTH_TROUBLESHOOTING"))
    /\ [](Printed("METRICS_FAILED") =>
              /\ Printed("METRICS_TROUBLESHOOTING")
              /\ \A t \in AnalysisTags : ~Printed(t)
              /\ analysis = EmptyAnalysis)
    /\ [][FailureStep]_vars

\* The second cycle of the loop, both of whose fetches failed, printed to
\* its end.
C9_Witness ==
    /\ args.continuous
    /\ cycle = 2
    /\ Printed("HEALTH_FAILED")
    /\ Printed("METRICS_FAILED")
    /\ Printed("ENDPOINTS")

\* A new cycle begins only from the top of the loop, one at a time, with
\* nothing left of the previous one, which was printed to its end and slept
\* through; the sleep follows the endpoints section; the metrics fetch
\* begins only when the health fetch has returned; the fetched text and the
\* analysis change only when they are fetched, computed or dropped.
CycleStep ==
    /\ cycle' # cycle =>
           /\ pc = "run_diagnostics"
           /\ cycle' = cycle + 1
           /\ fetches' = <<>>
           /\ metrics_data' = <<>>
           /\ analysis' = EmptyAnalysis
           /\ cycle > 0 => (Printed("ENDPOINTS") /\ Printed("SLEEPING"))
    /\ (pc' = "run_diagnostics" /\ pc' # pc) => pc \in {"main", "sleeping"}
    /\ (pc' = "sleeping" /\ pc' # pc) => pc = "sleep"
    /\ (pc' = "sleep" /\ pc' # pc) => pc = "print_monitoring_endpoints"
    /\ (pc' = "print_export_statistics" /\ pc' # pc /\ RunsHealth) =>
           (pc = "health_fetched" /\ fetches = <<"health">>)
    /\ fetches' # fetches =>
           (fetches' = <<>> \/ \E e \in {"health", "metrics"} : fetches' = fetches \o <<e>>)
    /\ metrics_data' # metrics_data =>
           pc \in {"run_diagnostics", "print_export_statistics"}
    /\ analysis' # analysis => pc \in {"run_diagnostics", "metrics_fetched"}

\* C10: in a cycle that runs both sub-reports the health fetch completes
\* before the metrics fetch starts; each endpoint is fetched at most once per
\* cycle; a cycle starts only after the previous one has finished printing
\* and the sleep has elapsed; the analysis printed in a cycle is that of the
\* text fetched in the same cycle.
C10_SequentialCycles ==
    /\ [](fetches \in {<<>>, <<"health">>, <<"metrics">>, <<"health", "metrics">>})
    /\ []((RunsHealth /\ fetches # <<>>) => fetches[1] = "health")
    /\ [](Analysed => (fetches[Len(fetches)] = "metrics" /\ metrics_success))
    /\ [](pc = "print_status_assessment" =>
              analysis = analyze_export_metrics(metrics_data))
    /\ [][CycleStep]_vars

\* The second cycle of the loop with both fetches done and its statistics
\* printed.
C10_Witness ==
    /\ args.continuous
    /\ cycle = 2
    /\ fetches = <<"health", "metrics">>
    /\ Analysed

====
